---------------------------- MODULE Spec2Model ----------------------------
(***************************************************************************)
(* Model of the HTTP message layer of the webserver (src/src/http.rs):     *)
(* parse_request (scan_request, split_lines, parse_first_line,             *)
(* parse_non_first_line, RequestBuilder) and Response (new, add_header,    *)
(* render, with the Display impls of Status and ResponseHeader).           *)
(*                                                                         *)
(* Text is modelled by TLA+ strings over ASCII, so that a byte offset of   *)
(* the Rust code (&s[5..]) is a character offset here, 1-based.  A panic   *)
(* of the Rust code is a result whose field "panic" names the panic site.  *)
(***************************************************************************)
EXTENDS Naturals, Sequences, FiniteSets

VARIABLES
    request,     \* the request text handed to parse_request
    sentFirst,   \* history: the fields of the first line received, <<>> if none
    sentLines,   \* history: the lines received after the first line
    sentTail,    \* history: what was received after the last line
    pc,          \* "recv" while text arrives, "done" once parse_request returned
    result,      \* what parse_request returned (or the panic it ended with)
    scan,        \* what scan_request returned to parse_request, if it was called
    resp,        \* the Response object: version, status, headers, body
    output,      \* the bytes the last render call returned
    ops          \* history: the calls made on the Response, in order

vars == <<request, sentFirst, sentLines, sentTail, pc, result, scan,
          resp, output, ops>>
parseVars == <<request, sentFirst, sentLines, sentTail, pc, result, scan>>
respVars == <<resp, output, ops>>

----------------------------------------------------------------------------
(* Bounds of the model. *)
MaxLines == 3
MaxHeaders == 3
MaxCalls == 4

----------------------------------------------------------------------------
(* Text helpers: the std functions the code calls. *)

CRLF == "\r\n"

\* The vertical tab, U+000B: the string holds that one character, for which
\* TLA+ has no escape.
VT == ""

\* char::is_whitespace, restricted to ASCII (str::trim strips White_Space):
\* U+0009 to U+000D and the space.
Whitespace == {" ", "\t", "\n", VT, "\f", "\r"}

CharAt(s, i) == SubSeq(s, i, i)

From(s, i) == SubSeq(s, i, Len(s))

RECURSIVE TrimStart(_)
TrimStart(s) ==
    IF s = "" THEN ""
    ELSE IF CharAt(s, 1) \in Whitespace THEN TrimStart(From(s, 2))
    ELSE s

RECURSIVE TrimEnd(_)
TrimEnd(s) ==
    IF s = "" THEN ""
    ELSE IF CharAt(s, Len(s)) \in Whitespace THEN TrimEnd(SubSeq(s, 1, Len(s) - 1))
    ELSE s

\* str::trim
Trim(s) == TrimEnd(TrimStart(s))

StartsWith(s, pat) == Len(s) >= Len(pat) /\ SubSeq(s, 1, Len(pat)) = pat

\* str::find: the 1-based index of the first occurrence of pat in s, 0 if none.
RECURSIVE FindFrom(_, _, _)
FindFrom(s, pat, i) ==
    IF i + Len(pat) - 1 > Len(s) THEN 0
    ELSE IF SubSeq(s, i, i + Len(pat) - 1) = pat THEN i
    ELSE FindFrom(s, pat, i + 1)

Find(s, pat) == FindFrom(s, pat, 1)

\* str::split(pat).collect(): the pieces between the non-overlapping
\* occurrences of pat, left to right; empty pieces are kept.
RECURSIVE Split(_, _)
Split(s, pat) ==
    LET i == Find(s, pat) IN
    IF i = 0 THEN <<s>>
    ELSE <<SubSeq(s, 1, i - 1)>> \o Split(From(s, i + Len(pat)), pat)

\* Concatenation of pieces with sep between them (the inverse of Split).
RECURSIVE Join(_, _)
Join(pieces, sep) ==
    IF pieces = <<>> THEN ""
    ELSE IF Len(pieces) = 1 THEN pieces[1]
    ELSE pieces[1] \o sep \o Join(Tail(pieces), sep)

----------------------------------------------------------------------------
(* Request parsing. *)

NoPanic == "none"
PanicEmpty == "Empty request input!"
PanicIndex == "index out of bounds"
PanicSlice == "byte index 5 is out of bounds"
PanicNoColon == "No colon found in line!"
PanicNoValue == "Expecting a value for header"
PanicNoTokens == "No more tokens_iterator, but expected more!"
PanicShouldNotHappen == "Should not happen!"

Token(type, text) == [type |-> type, text |-> text]
EndOfText == Token("EndOfText", "")

\* RequestBuilder::new
NewBuilder ==
    [method |-> "", url |-> "", version |-> "", host |-> "", user_agent |-> "",
     accept |-> "", upgrade_insecure_requests |-> "", accept_language |-> "",
     accept_encoding |-> "", cookie |-> "", connection |-> "", referer |-> "",
     cache_control |-> ""]

\* A scan result: the tokens, or the panic that ended the scan.
Scanned(tokens) == [panic |-> NoPanic, tokens |-> tokens]
ScanPanic(msg) == [panic |-> msg, tokens |-> <<>>]

\* scan_request was not called.
NotScanned == ScanPanic("not called")

\* split_lines
split_lines(input) == Split(Trim(input), CRLF)

\* parse_first_line: parts[1] and parts[2] are unchecked indexings and
\* &full_version[5..] an unchecked slice.
parse_first_line(line) ==
    LET parts == Split(line, " ") IN
    IF Len(parts) < 3 THEN ScanPanic(PanicIndex)
    ELSE LET method == Trim(parts[1])
             url == Trim(parts[2])
             full_version == Trim(parts[3])
         IN IF Len(full_version) < 5 THEN ScanPanic(PanicSlice)
            ELSE Scanned(<<Token("Method", method), Token("Url", url),
                           Token("Version", From(full_version, 6))>>)

\* parse_non_first_line keeping the value as sliced, untrimmed.
parse_non_first_line_untrimmed(line) ==
    LET colon_position == Find(line, ":") IN
    IF colon_position = 0 THEN ScanPanic(PanicNoColon)
    ELSE Scanned(<<Token("HeaderName", Trim(SubSeq(line, 1, colon_position - 1))),
                   Token("HeaderValue", From(line, colon_position + 1))>>)

\* parse_non_first_line
parse_non_first_line(line) ==
    LET colon_position == Find(line, ":") IN
    IF colon_position = 0 THEN ScanPanic(PanicNoColon)
    ELSE Scanned(<<Token("HeaderName", Trim(SubSeq(line, 1, colon_position - 1))),
                   Token("HeaderValue", Trim(From(line, colon_position + 1)))>>)

\* The for loop of scan_request pushing the value of a line before its name.
RECURSIVE ScanLinesValueFirst(_, _, _)
ScanLinesValueFirst(lines, i, tokens) ==
    IF i > Len(lines) THEN Scanned(Append(tokens, EndOfText))
    ELSE LET r == IF i = 1 THEN parse_first_line(lines[i])
                  ELSE parse_non_first_line(lines[i])
         IN IF r.panic # NoPanic THEN r
            ELSE ScanLinesValueFirst(lines, i + 1,
                     tokens \o (IF i = 1 THEN r.tokens ELSE <<r.tokens[2], r.tokens[1]>>))

\* The for loop of scan_request over lines[i..], tokens being what is pushed so far.
RECURSIVE ScanLines(_, _, _)
ScanLines(lines, i, tokens) ==
    IF i > Len(lines) THEN Scanned(Append(tokens, EndOfText))
    ELSE LET r == IF i = 1 THEN parse_first_line(lines[i])
                  ELSE parse_non_first_line(lines[i])
         IN IF r.panic # NoPanic THEN r
            ELSE ScanLines(lines, i + 1, tokens \o r.tokens)

\* scan_request without the final tokens.push(RequestToken::EndOfText).
scan_request_no_end(text) ==
    LET scanned == ScanLines(split_lines(text), 1, <<>>) IN
    IF scanned.panic # NoPanic THEN scanned
    ELSE Scanned(SubSeq(scanned.tokens, 1, Len(scanned.tokens) - 1))

\* scan_request
scan_request(text) == ScanLines(split_lines(text), 1, <<>>)

\* The arms of the match on the header name in parse_request: the Request
\* field the arm's with_* setter assigns, "" for the arm _ (a debug! line).
MatchName(name) ==
    CASE name = "Host" -> "host"
      [] name = "User-Agent" -> "user_agent"
      [] name = "Accept" -> "accept"
      [] name = "Accept-Language" -> "accept_language"
      [] name = "Accept-Encoding" -> "accept_encoding"
      [] name = "Cookie" -> "cookie"
      [] name = "Connection" -> "connection"
      [] name = "Upgrade-Insecure-Requests" -> "upgrade_insecure_requests"
      [] name = "Referer" -> "referer"
      [] name = "Cache-Control" -> "cache_control"
      [] OTHER -> ""

\* The setters keeping the first value of a field instead of the last.
WithHeaderFirstWins(builder, name, value) ==
    LET field == MatchName(name) IN
    IF field = "" \/ builder[field] # "" THEN builder
    ELSE [builder EXCEPT ![field] = value]

\* The match done on the name without regard to the case of its first letter.
WithHeaderIgnoreCase(builder, name, value) ==
    LET field == MatchName(IF name = "host" THEN "Host" ELSE name) IN
    IF field = "" THEN builder ELSE [builder EXCEPT ![field] = value]

\* The match in parse_request with its setters, RequestBuilder::with_host and
\* the like: self.<field> = value.clone().
WithHeader(builder, name, value) ==
    LET field == MatchName(name) IN
    IF field = "" THEN builder ELSE [builder EXCEPT ![field] = value]

\* A parse result: the Request built, or the panic that ended the call.
Parsed(builder) == [panic |-> NoPanic, request |-> builder]
ParsePanic(msg) == [panic |-> msg, request |-> NewBuilder]

\* The loop of parse_request over the token iterator, at position i.
RECURSIVE TokenLoop(_, _, _)
TokenLoop(tokens, i, builder) ==
    IF i > Len(tokens) THEN ParsePanic(PanicNoTokens)
    ELSE LET token == tokens[i] IN
         CASE token.type = "Method" ->
                  TokenLoop(tokens, i + 1, [builder EXCEPT !.method = token.text])
           [] token.type = "Url" ->
                  TokenLoop(tokens, i + 1, [builder EXCEPT !.url = token.text])
           [] token.type = "Version" ->
                  TokenLoop(tokens, i + 1, [builder EXCEPT !.version = token.text])
           [] token.type = "HeaderName" ->
                  IF i + 1 > Len(tokens) THEN ParsePanic(PanicNoValue)
                  ELSE LET value_token == tokens[i + 1] IN
                       TokenLoop(tokens, i + 2,
                                 IF value_token.type = "HeaderValue"
                                 THEN WithHeader(builder, token.text, value_token.text)
                                 ELSE builder)
           [] token.type = "EndOfText" -> Parsed(builder)
           [] OTHER -> ParsePanic(PanicShouldNotHappen)

\* parse_request
parse_request(text) ==
    IF text = "" THEN ParsePanic(PanicEmpty)
    ELSE LET scanned == scan_request(text) IN
         IF scanned.panic # NoPanic THEN ParsePanic(scanned.panic)
         ELSE TokenLoop(scanned.tokens, 1, NewBuilder)

----------------------------------------------------------------------------
(* The connection handler: the request text arrives line by line.  The     *)
(* history variables record what was sent, field by field.                 *)

\* First lines, as their space-separated fields: METHOD URL HTTP/VERSION, and
\* first lines that are short, have an empty field, a fourth field, or a third
\* field that is short or lacks the HTTP/ prefix; <<"", "">> is a single space.
FirstLines ==
    {<<"GET", "/foo", "HTTP/1.1">>, <<"GET", "/foo", "HTTP/">>,
     <<"">>, <<"", "">>, <<"GET">>, <<"GET", "/foo">>, <<"GET", "", "HTTP/1.1">>,
     <<"GET", "/foo", "1.1">>, <<"GET", "/foo", "HTTX/1.1">>,
     <<"GET", "/foo", "HTTP/1.1", "x">>}

\* A header line: the name, the colon if any, and the value as padding, the
\* value proper, padding.
Line(name, colon, lpad, core, rpad) ==
    [name |-> name, colon |-> colon, lpad |-> lpad, core |-> core, rpad |-> rpad]

\* The lines after the first: name ":" value lines with names the parser knows
\* and a name it does not, the empty line, a line without ":".
HeaderLines ==
    {Line("Host", ":", " ", "a", ""), Line("Host", ":", "", "b:c", " "),
     Line("Accept", ":", " ", "a", ""), Line("host", ":", " ", "b:c", ""),
     Line("", "", "", "", ""), Line("nocolon", "", "", "", "")}

\* The other names the parser knows, and further lines; these are sent as the
\* first header line only.
OtherNames ==
    {"User-Agent", "Accept-Language", "Accept-Encoding", "Cookie", "Connection",
     "Upgrade-Insecure-Requests", "Referer", "Cache-Control"}

OtherLines ==
    {Line(n, ":", " ", "v", "") : n \in OtherNames}
    \cup {Line("X-Custom", ":", " ", "1", ""), Line("Accept", ":", "\t" \o VT, "b:c", VT \o " ")}

Tails == {CRLF \o CRLF}

LineText(l) == l.name \o l.colon \o l.lpad \o l.core \o l.rpad

\* The ten names of the match in parse_request, each with its Request field.
AllowList ==
    {<<"Host", "host">>, <<"User-Agent", "user_agent">>, <<"Accept", "accept">>,
     <<"Accept-Language", "accept_language">>, <<"Accept-Encoding", "accept_encoding">>,
     <<"Cookie", "cookie">>, <<"Connection", "connection">>,
     <<"Upgrade-Insecure-Requests", "upgrade_insecure_requests">>,
     <<"Referer", "referer">>, <<"Cache-Control", "cache_control">>}

RecvFirstLine ==
    /\ pc = "recv" /\ sentFirst = <<>>
    /\ \E fields \in FirstLines :
          /\ sentFirst' = fields
          /\ request' = request \o Join(fields, " ")
    /\ UNCHANGED <<sentLines, sentTail, pc, result, scan, respVars>>

RecvHeaderLine ==
    /\ pc = "recv" /\ sentFirst # <<>> /\ sentTail = ""
    /\ Len(sentLines) < MaxLines
    /\ \E l \in HeaderLines \cup (IF sentLines = <<>> THEN OtherLines ELSE {}) :
          /\ sentLines' = Append(sentLines, l)
          /\ request' = request \o CRLF \o LineText(l)
    /\ UNCHANGED <<sentFirst, sentTail, pc, result, scan, respVars>>

RecvTail ==
    /\ pc = "recv" /\ sentFirst # <<>> /\ sentTail = ""
    /\ \E t \in Tails :
          /\ sentTail' = t
          /\ request' = request \o t
    /\ UNCHANGED <<sentFirst, sentLines, pc, result, scan, respVars>>

\* The call parse_request(request).
ParseRequest ==
    /\ pc = "recv"
    /\ result' = parse_request(request)
    /\ scan' = IF request = "" THEN NotScanned ELSE scan_request(request)
    /\ pc' = "done"
    /\ UNCHANGED <<request, sentFirst, sentLines, sentTail, respVars>>

----------------------------------------------------------------------------
(* Responses. *)

\* impl fmt::Display for Status
StatusText(status) ==
    CASE status = "Ok" -> "200 OK"
      [] status = "NotFound" -> "404 NOT FOUND"
      [] status = "MethodNotAllowed" -> "405 METHOD NOT ALLOWED"

Statuses == {"Ok", "NotFound", "MethodNotAllowed"}

Digit(d) == SubSeq("0123456789", d + 1, d + 1)

\* Display of usize: decimal, no sign, no leading zeros.
RECURSIVE ToDecimal(_)
ToDecimal(n) == IF n < 10 THEN Digit(n) ELSE ToDecimal(n \div 10) \o Digit(n % 10)

\* impl fmt::Display for ResponseHeader
HeaderText(header) ==
    CASE header.kind = "Allow" -> "Allow: " \o header.text
      [] header.kind = "Server" -> "Server: " \o header.text
      [] header.kind = "AcceptRanges" -> "Accept-Ranges: " \o header.text
      [] header.kind = "ContentType" -> "Content-Type: " \o header.text
      [] header.kind = "ContentLength" -> "Content-Length: " \o ToDecimal(header.count)
      [] header.kind = "Date" -> "Date: " \o header.text

TextHeader(kind, text) == [kind |-> kind, text |-> text, count |-> 0]
ContentLength(count) == [kind |-> "ContentLength", text |-> "", count |-> count]

\* The loop of render over self.headers[i..], pushing each header and "\r\n".
RECURSIVE RenderHeaders(_, _)
RenderHeaders(headers, i) ==
    IF i > Len(headers) THEN ""
    ELSE HeaderText(headers[i]) \o CRLF \o RenderHeaders(headers, i + 1)

\* render adding a Content-Length line of its own after the headers.
render_with_content_length(r) ==
    "HTTP/" \o r.version \o " " \o StatusText(r.status) \o CRLF
    \o RenderHeaders(r.headers, 1)
    \o "Content-Length: " \o ToDecimal(Len(r.body)) \o CRLF
    \o CRLF \o r.body

\* Response::render, the bytes returned.
render(r) ==
    "HTTP/" \o r.version \o " " \o StatusText(r.status) \o CRLF
    \o RenderHeaders(r.headers, 1) \o "\r" \o "\n" \o r.body

\* Response::new
NewResponse(version, status, body) ==
    [version |-> version, status |-> status, headers |-> <<>>, body |-> body]

\* The values responses are built from.
ResponseVersions == {"1.1", "1.0"}
ResponseBodies == {"", "Hello, World!", "This is not allowed!"}
ResponseHeaders ==
    {TextHeader("Allow", "GET, POST, HEAD"), TextHeader("Server", "ws"),
     TextHeader("AcceptRanges", "none"), TextHeader("ContentType", "text/html"),
     TextHeader("Date", "Wed, 14 Feb 2018 11:27:44 GMT"),
     ContentLength(0), ContentLength(13), ContentLength(1050)}

\* Response::add_header
AddHeader ==
    /\ Len(ops) < MaxCalls /\ Len(resp.headers) < MaxHeaders
    /\ \E header \in ResponseHeaders :
          resp' = [resp EXCEPT !.headers = Append(resp.headers, header)]
    /\ ops' = Append(ops, "add_header")
    /\ UNCHANGED <<output, parseVars>>

\* render taking the headers out of the Response as it writes them.
RenderDraining ==
    /\ Len(ops) < MaxCalls
    /\ output' = render(resp)
    /\ resp' = [resp EXCEPT !.headers = <<>>]
    /\ ops' = Append(ops, "render")
    /\ UNCHANGED parseVars

\* Response::render
Render ==
    /\ Len(ops) < MaxCalls
    /\ output' = render(resp)
    /\ ops' = Append(ops, "render")
    /\ UNCHANGED <<resp, parseVars>>

----------------------------------------------------------------------------
(* Specifications. *)

InitParse ==
    /\ request = "" /\ sentFirst = <<>> /\ sentLines = <<>> /\ sentTail = ""
    /\ pc = "recv" /\ result = ParsePanic(NoPanic) /\ scan = NotScanned

InitResponse ==
    /\ \E version \in ResponseVersions, status \in Statuses, body \in ResponseBodies :
          resp = NewResponse(version, status, body)
    /\ output = "" /\ ops = <<>>

\* The parser: a request arrives and is parsed; the Response lies idle.
Init ==
    /\ InitParse
    /\ resp = NewResponse("1.1", "Ok", "") /\ output = "" /\ ops = <<>>

Next == RecvFirstLine \/ RecvHeaderLine \/ RecvTail \/ ParseRequest

Spec == Init /\ [][Next]_vars

\* The Response: constructed, then add_header and render in any order.
InitR == InitParse /\ InitResponse

NextR == AddHeader \/ Render

SpecResponse == InitR /\ [][NextR]_vars

----------------------------------------------------------------------------
(* Vocabulary of the properties. *)

\* The error kind each panic of parse_request stands for.
ErrorKind(panic) ==
    CASE panic = PanicEmpty -> "EmptyRequest"
      [] panic = PanicIndex -> "MalformedRequestLine"
      [] panic = PanicSlice -> "MalformedVersion"
      [] panic = PanicNoColon -> "MalformedHeaderLine"
      [] panic = PanicNoValue -> "DanglingHeaderName"
      [] OTHER -> "InternalConsistencyViolation"

ClientErrorKinds ==
    {"EmptyRequest", "MalformedRequestLine", "MalformedVersion",
     "MalformedHeaderLine", "DanglingHeaderName"}

Returned == pc = "done" /\ result.panic = NoPanic

\* The text of a request made of a first line, header lines and a tail.
RequestText(first, lines, tail) ==
    Join(<<Join(first, " ")>> \o [i \in 1..Len(lines) |-> LineText(lines[i])], CRLF)
    \o tail

\* The indices of the header lines sent under the given name.
Occurrences(name) == {i \in 1..Len(sentLines) : sentLines[i].name = name}

Last(set) == CHOOSE i \in set : \A j \in set : j <= i

\* METHOD URL HTTP/VERSION, then "Name: value" lines only.
WellFormedRequest ==
    /\ Len(sentFirst) = 3
    /\ \A i \in 1..3 : sentFirst[i] # ""
    /\ StartsWith(sentFirst[3], "HTTP/")
    /\ \A i \in 1..Len(sentLines) : sentLines[i].colon = ":"

\* What was received is what was sent.
RequestIsWhatWasSent ==
    sentFirst # <<>> => request = RequestText(sentFirst, sentLines, sentTail)

----------------------------------------------------------------------------
(* C1: render returns the status line "HTTP/{version} {status}\r\n", one   *)
(* "{Name: value}\r\n" line per header in the order added (duplicates      *)
(* included), one "\r\n", then the body, and nothing else; a               *)
(* Content-Length line appears only for a ContentLength header added.      *)

ExpectedStatus ==
    [Ok |-> "200 OK", NotFound |-> "404 NOT FOUND",
     MethodNotAllowed |-> "405 METHOD NOT ALLOWED"]

ExpectedName ==
    [Allow |-> "Allow", Server |-> "Server", AcceptRanges |-> "Accept-Ranges",
     ContentType |-> "Content-Type", ContentLength |-> "Content-Length",
     Date |-> "Date"]

ExpectedCount(count) ==
    CASE count = 0 -> "0" [] count = 13 -> "13" [] count = 1050 -> "1050"

ExpectedLine(header) ==
    ExpectedName[header.kind] \o ": "
    \o (IF header.kind = "ContentLength" THEN ExpectedCount(header.count)
        ELSE header.text)

ExpectedOutput ==
    Join(<<"HTTP/" \o resp.version \o " " \o ExpectedStatus[resp.status]>>
         \o [i \in 1..Len(resp.headers) |-> ExpectedLine(resp.headers[i])]
         \o <<"", resp.body>>, CRLF)

JustRendered == ops # <<>> /\ ops[Len(ops)] = "render"

ContentLengthLines(text) ==
    LET lines == Split(text, CRLF) IN
    Cardinality({i \in 1..Len(lines) : StartsWith(lines[i], "Content-Length:")})

\* C1: after a render call the output is exactly the status line, the header
\* lines in the order added, one CRLF and the body; Content-Length lines are
\* those of the ContentLength headers added.
C1_RenderExact ==
    JustRendered =>
        /\ output = ExpectedOutput
        /\ ContentLengthLines(output) =
              Cardinality({i \in 1..Len(resp.headers) :
                              resp.headers[i].kind = "ContentLength"})
        /\ (resp = [version |-> "1.1", status |-> "MethodNotAllowed",
                    headers |-> <<TextHeader("Allow", "GET, POST, HEAD")>>,
                    body |-> "This is not allowed!"]
            => output = "HTTP/1.1 405 METHOD NOT ALLOWED\r\nAllow: GET, POST, HEAD\r\n\r\nThis is not allowed!")

C1_Witness ==
    /\ JustRendered
    /\ Len(resp.headers) = 3
    /\ resp.headers[1] = resp.headers[3]
    /\ resp.headers[1].kind = "Allow"
    /\ resp.headers[2].kind = "Date"
    /\ resp.body = "This is not allowed!"
    /\ ContentLengthLines(output) = 0

----------------------------------------------------------------------------
(* C2: a request METHOD URL HTTP/VERSION followed by "Name: value" lines   *)
(* parses to a Request with that method, url and version, each             *)
(* allow-listed field holding the trimmed value of the line of that name   *)
(* and "" when no line has the name.                                       *)

\* C2: a well-formed request parses to the method, url, version and header
\* values that were sent, "" for the allow-listed names not sent.
C2_ParsesWellFormed ==
    pc = "done" /\ WellFormedRequest =>
        /\ result.panic = NoPanic
        /\ result.request.method = sentFirst[1]
        /\ result.request.url = sentFirst[2]
        /\ "HTTP/" \o result.request.version = sentFirst[3]
        /\ \A p \in AllowList :
              LET occ == Occurrences(p[1]) IN
              /\ occ = {} => result.request[p[2]] = ""
              /\ \A i \in occ : occ = {i} => result.request[p[2]] = sentLines[i].core

C2_Witness ==
    /\ pc = "done" /\ WellFormedRequest
    /\ Len(sentLines) = 3
    /\ sentLines[1].name = "Cache-Control"
    /\ sentLines[3].name = "Host"
    /\ result.request.cache_control = "v"
    /\ result.request.host = "b:c"
    /\ result.request.accept = ""

----------------------------------------------------------------------------
(* C3: parse_request either returns a Request or ends in one of the five   *)
(* client-input error kinds, whatever the input.                           *)

\* C3: parse_request returns a Request or ends in a client-input error kind.
C3_Total ==
    pc = "done" => result.panic = NoPanic \/ ErrorKind(result.panic) \in ClientErrorKinds

C3_Witness ==
    /\ pc = "done"
    /\ ErrorKind(result.panic) = "MalformedHeaderLine"
    /\ Len(sentLines) = 3

----------------------------------------------------------------------------
(* C4: when an allow-listed name occurs on several header lines, the field *)
(* holds the trimmed value of the last of them, whatever lies between, and *)
(* every other field is what its own lines make it.                        *)

\* C4: a field whose name was sent several times holds the last value sent;
\* the other fields hold the last value of their own name, or "".
C4_LastWriteWins ==
    Returned =>
        \A p \in AllowList :
            LET occ == Occurrences(p[1]) IN
            Cardinality(occ) > 1 =>
                /\ result.request[p[2]] = sentLines[Last(occ)].core
                /\ \A q \in AllowList \ {p} :
                      LET other == Occurrences(q[1]) IN
                      result.request[q[2]] =
                          IF other = {} THEN "" ELSE sentLines[Last(other)].core

C4_Witness ==
    /\ Returned
    /\ Len(sentLines) = 3
    /\ sentLines[1].name = "Host" /\ sentLines[1].core = "b:c"
    /\ sentLines[2].name = "Accept"
    /\ sentLines[3].name = "Host" /\ sentLines[3].core = "a"
    /\ result.request.host = "a"

----------------------------------------------------------------------------
(* C5: a well-formed header line whose name is not, letter for letter, one *)
(* of the ten allow-listed names leaves the parsed Request as it is,       *)
(* wherever among the header lines it is inserted.                         *)

UnknownLines ==
    {Line("host", ":", " ", "zz", ""), Line("X-Custom", ":", "", "1", " "),
     Line("Accept-", ":", " ", "zz", "")}

InsertAt(lines, k, l) == SubSeq(lines, 1, k) \o <<l>> \o SubSeq(lines, k + 1, Len(lines))

\* The header lines of the request: the lines sent up to the last non-empty one.
HeaderCount ==
    LET full == {i \in 1..Len(sentLines) : LineText(sentLines[i]) # ""} IN
    IF full = {} THEN 0 ELSE Last(full)

\* C5: inserting a line with a name outside the allow-list at any header
\* position of a request that parses leaves the Request returned unchanged.
C5_UnknownHeaderDropped ==
    Returned =>
        \A k \in 0..HeaderCount, l \in UnknownLines :
            parse_request(RequestText(sentFirst, InsertAt(sentLines, k, l), sentTail))
                = result

C5_Witness ==
    /\ Returned
    /\ Len(sentLines) = 3
    /\ sentLines[1].name = "X-Custom"
    /\ sentLines[2].name = "Host"
    /\ sentLines[3].name = "host"
    /\ result.request.host = sentLines[2].core
    /\ sentLines[3].core # sentLines[2].core

----------------------------------------------------------------------------
(* C6: parse_request fails with EmptyRequest exactly for the inputs that   *)
(* are empty after trimming.                                               *)

\* C6: EmptyRequest is the outcome exactly when the trimmed input is empty.
C6_EmptyRequestIffBlank ==
    pc = "done" => (ErrorKind(result.panic) = "EmptyRequest" <=> Trim(request) = "")

----------------------------------------------------------------------------
(* C7: with three fields on the first line, parsing fails with             *)
(* MalformedVersion when the third does not begin with "HTTP/", and        *)
(* otherwise the version is the third field without that prefix.           *)

\* C7: a third field without the prefix "HTTP/" fails with MalformedVersion; a
\* version returned is the third field without the prefix.
C7_VersionPrefix ==
    pc = "done" /\ Len(sentFirst) = 3 =>
        IF StartsWith(sentFirst[3], "HTTP/")
        THEN result.panic = NoPanic => "HTTP/" \o result.request.version = sentFirst[3]
        ELSE ErrorKind(result.panic) = "MalformedVersion"

----------------------------------------------------------------------------
(* C8: once the first line is accepted, parsing fails with                 *)
(* MalformedHeaderLine exactly when some non-empty later line has no ":".  *)

FirstLineAccepted ==
    ErrorKind(result.panic) \notin
        {"EmptyRequest", "MalformedRequestLine", "MalformedVersion"}

\* C8: MalformedHeaderLine is the outcome exactly when a non-empty line after
\* the first has no ":"; empty lines do not count.
C8_MalformedHeaderLineIffNoColon ==
    pc = "done" /\ FirstLineAccepted =>
        (ErrorKind(result.panic) = "MalformedHeaderLine"
            <=> \E i \in 1..Len(sentLines) :
                    /\ LineText(sentLines[i]) # ""
                    /\ Find(LineText(sentLines[i]), ":") = 0)

----------------------------------------------------------------------------
(* C9: method, url and version of a Request that parse_request returns are *)
(* never empty.                                                            *)

\* C9: a Request returned has a non-empty method, url and version.
C9_FirstLineFieldsNonEmpty ==
    Returned =>
        /\ result.request.method # ""
        /\ result.request.url # ""
        /\ result.request.version # ""

----------------------------------------------------------------------------
(* C10: a render call leaves version, status, headers and body as they     *)
(* were, and returns what the render call just before it returned;         *)
(* add_header appends one header and changes nothing else.                 *)

\* C10: render changes nothing of the Response and repeats its output;
\* add_header only appends one header.
C10_RenderDoesNotMutate ==
    [][Len(ops') = Len(ops) + 1 =>
        /\ ops'[Len(ops')] = "render" =>
              /\ resp' = resp
              /\ JustRendered => output' = output
        /\ ops'[Len(ops')] = "add_header" =>
              /\ resp'.version = resp.version
              /\ resp'.status = resp.status
              /\ resp'.body = resp.body
              /\ Len(resp'.headers) = Len(resp.headers) + 1
              /\ SubSeq(resp'.headers, 1, Len(resp.headers)) = resp.headers
              /\ output' = output]_vars

C10_Witness ==
    /\ ops = <<"add_header", "render", "render", "add_header">>
    /\ Len(resp.headers) = 2
    /\ output = Join(<<"HTTP/" \o resp.version \o " " \o ExpectedStatus[resp.status],
                       ExpectedLine(resp.headers[1]), "", resp.body>>, CRLF)

----------------------------------------------------------------------------
(* C11: the tokens scan_request returns are Method, Url, Version, then for *)
(* each line after the first, in source order, a HeaderName directly       *)
(* followed by a HeaderValue, then one EndOfText as the last token; so in  *)
(* parse_request a HeaderName is always followed by a HeaderValue, no      *)
(* Method, Url or Version comes after the third token, and EndOfText is    *)
(* reached.                                                                *)

ScanAccepted == pc = "done" /\ scan.panic = NoPanic

TypesOf(tokens) == [i \in 1..Len(tokens) |-> tokens[i].type]

\* C11: a token sequence scan_request returns has the shape Method, Url,
\* Version, (HeaderName, HeaderValue) per later line in source order, EndOfText,
\* and parse_request then runs to EndOfText and returns.
C11_TokenShape ==
    ScanAccepted =>
        LET t == scan.tokens
            n == HeaderCount
        IN /\ Len(t) = 3 + 2 * n + 1
           /\ <<t[1], t[2]>> = <<Token("Method", sentFirst[1]), Token("Url", sentFirst[2])>>
           /\ t[3].type = "Version"
           /\ \A k \in 1..n :
                 /\ t[2 * k + 2] = Token("HeaderName", sentLines[k].name)
                 /\ t[2 * k + 3] = Token("HeaderValue", sentLines[k].core)
           /\ t[Len(t)] = EndOfText
           /\ Cardinality({i \in 1..Len(t) : t[i].type = "EndOfText"}) = 1
           /\ \A i \in 1..Len(t) :
                 /\ t[i].type = "HeaderName" =>
                       i < Len(t) /\ t[i + 1].type = "HeaderValue"
                 /\ i > 3 => t[i].type \notin {"Method", "Url", "Version"}
           /\ result.panic = NoPanic

C11_Witness ==
    /\ ScanAccepted
    /\ Len(sentLines) = 3
    /\ TypesOf(scan.tokens) =
          <<"Method", "Url", "Version", "HeaderName", "HeaderValue", "HeaderName",
            "HeaderValue", "HeaderName", "HeaderValue", "EndOfText">>
    /\ scan.tokens[6].text = "host"
    /\ scan.tokens[9].text = "b:c"
    /\ result.panic = NoPanic

=============================================================================
